---- MODULE Spec2Model ----
(***************************************************************************)
(* State-machine model of four parts of risinglight:                       *)
(*   - catalog::TableCatalog            (src/src/catalog/table.rs)         *)
(*   - streaming::executor::Builder     (src/src/streaming/executor/mod.rs)*)
(*   - executor_v2 CreateTable/CreateMView executors                       *)
(*                                      (src/src/executor_v2/create.rs)    *)
(*   - Database::run                    (src/code/01-05/src/db.rs)         *)
(* Each part has its own specification over the shared variable tuple; the *)
(* variables of the other parts are held at their idle values.             *)
(***************************************************************************)
EXTENDS Integers, Sequences, FiniteSets, TLC

VARIABLES
    \* ---- TableCatalog ----
    decl,          \* the `columns` argument TableCatalog::new was called with
    column_idxs,   \* TableCatalog.column_idxs : name -> column id
    columns,       \* TableCatalog.columns     : column id -> ColumnCatalog
    pre_idxs,      \* column_idxs before the last add_column call
    pre_columns,   \* columns before the last add_column call
    last,          \* the last catalog call: [op, col, ret]
    ncalls,        \* number of add_column calls made after construction
    \* ---- streaming Builder ----
    egraph,        \* class id -> [kind, children, schema]
    root,          \* Builder.root
    stack,         \* build_id call stack: one program counter per nested call
    bstate,        \* "idle" | "building" | "done" | "panicked"
    trace,         \* what build has done so far, in order: <<op, plan id>>
    rexpr,         \* argument `expr` of the last resolve_column_index call
    rplan,         \* argument `plan` of the last resolve_column_index call
    rresult,       \* its result: a concrete expression tree or a panic
    \* ---- DDL executors ----
    ddl,           \* the running executor: [kind, with, pc, id]
    storage_tables,\* tables storage.create_table has created
    sources,       \* table ids stream.create_source has registered
    mviews,        \* number of views stream.create_mview has registered
    yielded,       \* items the running executor's stream has produced
    ddl_log,       \* calls the running executor has made, in order
    ddl_n,         \* executors run so far
    \* ---- Database::run ----
    parse_ok,      \* whether parse(sql) succeeds
    stmts,         \* the statements parse(sql) returns
    run_pc,        \* "parse" | "bind" | "execute" | "returned"
    run_i,         \* index of the statement the loop is at
    outputs,       \* the local `outputs`
    run_ret,       \* the value run returned
    run_log        \* binds and executes performed, in order

catalogVars == <<decl, column_idxs, columns, pre_idxs, pre_columns, last, ncalls>>
builderVars == <<egraph, root, stack, bstate, trace, rexpr, rplan, rresult>>
ddlVars     == <<ddl, storage_tables, sources, mviews, yielded, ddl_log, ddl_n>>
runVars     == <<parse_ok, stmts, run_pc, run_i, outputs, run_ret, run_log>>
vars        == <<catalogVars, builderVars, ddlVars, runVars>>

\* ------------------------------------------------------------------ bounds
MaxCols  == 2     \* declared columns passed to TableCatalog::new
MaxCalls == 2     \* add_column calls after construction

\* ------------------------------------------------------- generic helpers
Range(s) == {s[i] : i \in 1..Len(s)}

SeqsUpTo(S, n) == UNION {[1..k -> S] : k \in 0..n}

NonEmptySeqsUpTo(S, n) == UNION {[1..k -> S] : k \in 1..n}

\* m with key k bound to v (HashMap::insert / BTreeMap::insert: an existing
\* entry under k is replaced).
MapInsert(m, k, v) ==
    [x \in (DOMAIN m) \cup {k} |-> IF x = k THEN v ELSE m[x]]

MapRemove(m, k) ==
    [x \in (DOMAIN m) \ {k} |-> m[x]]

EmptyMap == [x \in {} |-> 0]

\* ================================================================ catalog
\* u32::MAX, the id TableCatalog::new gives the row-identity column. Column ids
\* are only compared, never computed with, so the largest id is written as the
\* largest integer TLC represents (2^31 - 1) in place of 2^32 - 1.
ROWID == 2147483647

UserNames == {"a", "b", "c"}
ColNames  == UserNames \cup {"_rowid_"}
ColIds    == {0, 1, 2, ROWID}

\* ColumnCatalog::new(id, desc): the fields the table catalog reads.
ColumnCatalog(i, n) == [id |-> i, name |-> n]

AllColumnCatalogs == {ColumnCatalog(i, n) : i \in ColIds, n \in ColNames}

RowidColumn == ColumnCatalog(ROWID, "_rowid_")

NoColumn == ColumnCatalog(-1, "")

RetOk(i)         == [tag |-> "Ok", id |-> i, entity |-> "", name |-> ""]
RetDuplicated(n) == [tag |-> "Duplicated", id |-> -1, entity |-> "column", name |-> n]

Catalog(idxs, cols) == [column_idxs |-> idxs, columns |-> cols]

\* The two inserts of add_column, lines 66-69.
add_column_insert(cat, col) ==
    Catalog(MapInsert(cat.column_idxs, col.name, col.id),
            MapInsert(cat.columns, col.id, col))

\* The duplicate test of add_column, line 60.
add_column_never_duplicate(cat, col) == FALSE

add_column_is_duplicate(cat, col) == col.name \in DOMAIN cat.column_idxs

\* TableCatalog::add_column: the catalog afterwards and the value returned.
add_column(cat, col) ==
    IF add_column_is_duplicate(cat, col)
        THEN [cat |-> cat, ret |-> RetDuplicated(col.name)]
        ELSE [cat |-> add_column_insert(cat, col), ret |-> RetOk(col.id)]

\* The loop of TableCatalog::new over `columns`, from index i on.
RECURSIVE new_loop(_, _, _)
new_loop(acc, cols, i) ==
    IF i > Len(cols) \/ acc.ret.tag # "Ok"
        THEN acc
        ELSE new_loop(add_column(acc.cat, cols[i]), cols, i + 1)

\* TableCatalog::new: the rowid column first, then the declared columns; a
\* ret other than Ok is the unwrap() that panics.
new(cols) ==
    new_loop(add_column(Catalog(EmptyMap, EmptyMap), RowidColumn), cols, 1)

all_columns_keep_rowid(cols) == cols

all_columns(cols) == MapRemove(cols, ROWID)

all_columns_with_rowid(cols) == cols

None == [tag |-> "None"]
Some(v) == [tag |-> "Some", val |-> v]

get_column_id_by_name(idxs, n) ==
    IF n \in DOMAIN idxs THEN Some(idxs[n]) ELSE None

get_column_by_id(cols, i) ==
    IF i \in DOMAIN cols THEN Some(cols[i]) ELSE None

get_column_by_name(idxs, cols, n) ==
    IF n \in DOMAIN idxs /\ idxs[n] \in DOMAIN cols
        THEN Some(cols[idxs[n]])
        ELSE None

\* The column lists TableCatalog::new is called with.
DeclInputs == SeqsUpTo(AllColumnCatalogs, MaxCols)

CatalogIdle ==
    /\ decl = <<>>
    /\ column_idxs = EmptyMap
    /\ columns = EmptyMap
    /\ pre_idxs = EmptyMap
    /\ pre_columns = EmptyMap
    /\ last = [op |-> "none", col |-> NoColumn, ret |-> RetOk(-1)]
    /\ ncalls = 0

\* A table catalog as TableCatalog::new returns it (constructions that panic
\* in unwrap() return none).
InitCatalog ==
    /\ decl \in DeclInputs
    /\ new(decl).ret.tag = "Ok"
    /\ column_idxs = new(decl).cat.column_idxs
    /\ columns = new(decl).cat.columns
    /\ pre_idxs = EmptyMap
    /\ pre_columns = EmptyMap
    /\ last = [op |-> "new", col |-> NoColumn, ret |-> RetOk(-1)]
    /\ ncalls = 0

AddColumn(col) ==
    /\ ncalls < MaxCalls
    /\ LET r == add_column(Catalog(column_idxs, columns), col)
       IN  /\ column_idxs' = r.cat.column_idxs
           /\ columns' = r.cat.columns
           /\ last' = [op |-> "add_column", col |-> col, ret |-> r.ret]
    /\ pre_idxs' = column_idxs
    /\ pre_columns' = columns
    /\ ncalls' = ncalls + 1
    /\ UNCHANGED <<decl, builderVars, ddlVars, runVars>>

NextCatalog == \E col \in AllColumnCatalogs : AddColumn(col)

\* ================================================================ builder
MaxDepth  == 2    \* plan nodes above the table scan
MaxProjs  == 1    \* expressions per projection list of a built plan
MaxScanCols == 2  \* columns the scan of a built plan requests
MaxList   == 2    \* expressions in the list handed to resolve_column_index
MaxSchema == 2    \* length of the context plan's output schema

\* The scalar classes of the e-graph: a, b, 1, a + b, (a + b) + 1, and a table.
ColA == 0
ColB == 1
Const1 == 2
AddAB == 3
AddAB1 == 4
TableT == 5
ExprListId == 9
ScalarIds == {ColA, ColB, Const1, AddAB, AddAB1}

PlanId(i) == 10 + 2 * i
ListId(i) == 11 + 2 * i

ENode(k, ch) == [kind |-> k, children |-> ch, schema |-> <<>>]

ScalarNodes ==
    [id \in ScalarIds \cup {TableT} |->
        CASE id = ColA   -> ENode("Column", <<>>)
          [] id = ColB   -> ENode("Column", <<>>)
          [] id = Const1 -> ENode("Constant", <<>>)
          [] id = AddAB  -> ENode("Add", <<ColA, ColB>>)
          [] id = AddAB1 -> ENode("Add", <<AddAB, Const1>>)
          [] id = TableT -> ENode("Table", <<>>)]

\* A plan: `upper` are the nodes above the scan, root first, each a projection
\* Proj([list, child]) or a filter Filter([cond, child]); the leaf is
\* Scan([table, list]).
ProjLayer(l) == [kind |-> "Proj", list |-> l]
FilterLayer  == [kind |-> "Filter", list |-> <<Const1>>]

PlanGraph(upper, scancols) ==
    LET n == Len(upper) + 1
        planIds == {PlanId(i) : i \in 1..n}
        listIds == {ListId(i) : i \in 1..n}
        Ix(id)  == IF id \in planIds THEN (id - 10) \div 2 ELSE (id - 11) \div 2
    IN  [id \in (DOMAIN ScalarNodes) \cup planIds \cup listIds |->
            IF id \in DOMAIN ScalarNodes THEN ScalarNodes[id]
            ELSE IF id \in listIds
                THEN IF Ix(id) = n THEN ENode("List", scancols)
                     ELSE ENode("List", upper[Ix(id)].list)
            ELSE IF Ix(id) = n THEN ENode("Scan", <<TableT, id + 1>>)
            ELSE IF upper[Ix(id)].kind = "Proj"
                THEN ENode("Proj", <<id + 1, id + 2>>)
                ELSE ENode("Filter", <<Const1, id + 2>>)]

\* TypeSchemaAnalysis: the output schema of a plan class (the class ids its
\* output columns come from); empty for a scalar class.
RECURSIVE Schema(_, _)
Schema(g, id) ==
    CASE g[id].kind = "Proj"   -> g[g[id].children[1]].children
      [] g[id].kind = "Scan"   -> g[g[id].children[2]].children
      [] g[id].kind = "Filter" -> Schema(g, g[id].children[2])
      [] OTHER                 -> <<>>

\* egraph.add_expr(plan): the classes with their analysis data attached.
WithAnalysis(g) == [id \in DOMAIN g |-> [g[id] EXCEPT !.schema = Schema(g, id)]]

\* Builder::node
node(id) == egraph[id]

\* ---- concrete expressions (RecExpr), as trees
Tree(k, s, i, ch) == [kind |-> k, sym |-> s, idx |-> i, children |-> ch]
ColumnIndex(i) == Tree("ColumnIndex", -1, i, <<>>)
Panic == Tree("panic", -1, -1, <<>>)
NoTree == Tree("none", -1, -1, <<>>)
\* e.clone(): the node of class id, its children still class ids
Clone(id) == Tree(node(id).kind, id, -1, node(id).children)

\* schema.iter().position(|x| *x == id): the first position (from 0) holding
\* id, -1 for None.
rposition(schema, id) ==
    IF \E p \in 1..Len(schema) : schema[p] = id
        THEN (CHOOSE p \in 1..Len(schema) :
                /\ schema[p] = id
                /\ \A q \in 1..Len(schema) : schema[q] = id => q <= p) - 1
        ELSE -1

position(schema, id) ==
    IF \E p \in 1..Len(schema) : schema[p] = id
        THEN (CHOOSE p \in 1..Len(schema) :
                /\ schema[p] = id
                /\ \A q \in 1..Len(schema) : schema[q] = id => p <= q) - 1
        ELSE -1

\* The closure resolve_column_index hands to build_recexpr, lines 62-70.
resolve_closure_columns_only(schema, id) ==
    IF node(id).kind = "Column"
        THEN IF position(schema, id) # -1
                THEN ColumnIndex(position(schema, id))
                ELSE Panic
        ELSE Clone(id)

resolve_closure(schema, id) ==
    IF position(schema, id) # -1
        THEN ColumnIndex(position(schema, id))
        ELSE IF node(id).kind = "Column" THEN Panic ELSE Clone(id)

\* egg's Language::build_recexpr: the node get_node(id) returns, its children
\* looked up through get_node in turn; a panic of get_node unwinds the call.
RECURSIVE build_child(_, _)
build_child(schema, id) ==
    LET n == resolve_closure(schema, id)
        kids == [j \in 1..Len(n.children) |-> build_child(schema, n.children[j])]
    IN  IF n.kind = "panic" \/ \E j \in 1..Len(kids) : kids[j].kind = "panic"
            THEN Panic
            ELSE [n EXCEPT !.children = kids]

\* Builder::resolve_column_index: build_recexpr is called on node(expr), so
\* the root node is kept and the closure sees its descendants only.
resolve_column_index(expr, plan) ==
    LET schema == egraph[plan].schema
        n == Clone(expr)
        kids == [j \in 1..Len(n.children) |-> build_child(schema, n.children[j])]
    IN  IF \E j \in 1..Len(kids) : kids[j].kind = "panic"
            THEN Panic
            ELSE [n EXCEPT !.children = kids]

BuilderIdle ==
    /\ egraph = ScalarNodes
    /\ root = -1
    /\ stack = <<>>
    /\ bstate = "idle"
    /\ trace = <<>>
    /\ rexpr = -1
    /\ rplan = -1
    /\ rresult = NoTree

\* ---- resolve_column_index on its own: a projection list (or a single
\* scalar class) resolved against a projection's output schema.
InitResolve ==
    /\ \E s \in NonEmptySeqsUpTo(ScalarIds, MaxSchema),
          l \in NonEmptySeqsUpTo(ScalarIds, MaxList) :
            egraph = WithAnalysis(
                [id \in (DOMAIN PlanGraph(<<ProjLayer(s)>>, <<ColA, ColB>>))
                            \cup {ExprListId} |->
                    IF id = ExprListId THEN ENode("List", l)
                    ELSE PlanGraph(<<ProjLayer(s)>>, <<ColA, ColB>>)[id]])
    /\ root = PlanId(1)
    /\ rexpr \in ScalarIds \cup {ExprListId}
    /\ rplan = PlanId(1)
    /\ rresult = NoTree
    /\ stack = <<>>
    /\ bstate = "idle"
    /\ trace = <<>>

ResolveColumnIndex ==
    /\ rresult = NoTree
    /\ rresult' = resolve_column_index(rexpr, rplan)
    /\ UNCHANGED <<egraph, root, stack, bstate, trace, rexpr, rplan, catalogVars, ddlVars, runVars>>

NextResolve == ResolveColumnIndex

\* ---- Builder::build / build_id
\* The order in which build_id evaluates the Proj arm, lines 88-91 and 95: the
\* receiver ProjectionExecutor { projs: resolve_column_index(..) } first, then
\* the argument build_id(child), then spawn_stream.
ProjStepsChildFirst == <<"build_child", "resolve", "spawn">>

ProjSteps == <<"resolve", "build_child", "spawn">>

\* The Scan arm, lines 80-86 and 95.
ScanSteps == <<"get_stream", "spawn">>

\* The arms of the match in build_id.
IsPlan(id) == node(id).kind \in {"Scan", "Proj"}

Steps(id) ==
    CASE node(id).kind = "Proj" -> ProjSteps
      [] node(id).kind = "Scan" -> ScanSteps
      [] OTHER                  -> <<"not_a_plan">>

Frame(id, pc) == [id |-> id, pc |-> pc]

Top == stack[Len(stack)]

TopStep == Steps(Top.id)[Top.pc]

Event(op, id) == <<op, id>>

\* The plans build is called with: projections and filters over one scan.
ProjPool == {ColA, ColB, AddAB}

Layers ==
    {ProjLayer(l) : l \in NonEmptySeqsUpTo(ProjPool, MaxProjs)} \cup {FilterLayer}

InitBuild ==
    /\ \E upper \in SeqsUpTo(Layers, MaxDepth),
          cols \in NonEmptySeqsUpTo({ColA, ColB}, MaxScanCols) :
            egraph = WithAnalysis(PlanGraph(upper, cols))
    /\ root = PlanId(1)
    /\ stack = <<>>
    /\ bstate = "idle"
    /\ trace = <<>>
    /\ rexpr = -1
    /\ rplan = -1
    /\ rresult = NoTree

\* Builder::build: build_id(self.root)
Build ==
    /\ bstate = "idle"
    /\ bstate' = "building"
    /\ stack' = <<Frame(root, 1)>>
    /\ trace' = Append(trace, Event("build_id", root))
    /\ UNCHANGED <<egraph, root, rexpr, rplan, rresult, catalogVars, ddlVars, runVars>>

\* node => panic!("not a plan: {node:?}")
BuildNotAPlan ==
    /\ bstate = "building"
    /\ TopStep = "not_a_plan"
    /\ bstate' = "panicked"
    /\ trace' = Append(trace, Event("panic_not_a_plan", Top.id))
    /\ UNCHANGED <<egraph, root, stack, rexpr, rplan, rresult, catalogVars, ddlVars, runVars>>

\* projs: self.resolve_column_index(projs, child)
BuildResolve ==
    /\ bstate = "building"
    /\ TopStep = "resolve"
    /\ LET projs == node(Top.id).children[1]
           child == node(Top.id).children[2]
           r     == resolve_column_index(projs, child)
       IN  /\ rexpr' = projs
           /\ rplan' = child
           /\ rresult' = r
           /\ IF r = Panic
                THEN /\ bstate' = "panicked"
                     /\ trace' = Append(trace, Event("panic_unresolved", Top.id))
                     /\ stack' = stack
                ELSE /\ bstate' = bstate
                     /\ trace' = Append(trace, Event("resolve", Top.id))
                     /\ stack' = [stack EXCEPT ![Len(stack)].pc = @ + 1]
    /\ UNCHANGED <<egraph, root, catalogVars, ddlVars, runVars>>

\* self.build_id(child)
BuildChild ==
    /\ bstate = "building"
    /\ TopStep = "build_child"
    /\ LET child == node(Top.id).children[2]
       IN  /\ stack' = Append(stack, Frame(child, 1))
           /\ trace' = Append(trace, Event("build_id", child))
    /\ UNCHANGED <<egraph, root, bstate, rexpr, rplan, rresult, catalogVars, ddlVars, runVars>>

\* TableScanExecutor { stream: self.streaming.get_stream(..), columns }
BuildScan ==
    /\ bstate = "building"
    /\ TopStep = "get_stream"
    /\ stack' = [stack EXCEPT ![Len(stack)].pc = @ + 1]
    /\ trace' = Append(trace, Event("get_stream", Top.id))
    /\ UNCHANGED <<egraph, root, bstate, rexpr, rplan, rresult, catalogVars, ddlVars, runVars>>

\* spawn_stream(&self.node(id).to_string(), stream), and the return to the
\* caller, whose build_id(child) argument is then evaluated.
BuildSpawn ==
    /\ bstate = "building"
    /\ TopStep = "spawn"
    /\ trace' = Append(trace, Event("spawn_stream", Top.id))
    /\ IF Len(stack) = 1
        THEN /\ stack' = <<>>
             /\ bstate' = "done"
        ELSE /\ stack' = [SubSeq(stack, 1, Len(stack) - 1)
                            EXCEPT ![Len(stack) - 1].pc = @ + 1]
             /\ bstate' = bstate
    /\ UNCHANGED <<egraph, root, rexpr, rplan, rresult, catalogVars, ddlVars, runVars>>

NextBuild ==
    \/ Build
    \/ BuildNotAPlan
    \/ BuildResolve
    \/ BuildChild
    \/ BuildScan
    \/ BuildSpawn

\* ========================================================== DDL executors
MaxDdl == 3       \* executors run one after the other

WithKeys == {"connector", "topic"}

\* DataChunk::single(1)
AckChunk == [tag |-> "Ok", val |-> "single(1)"]
ErrItem(what) == [tag |-> "Err", val |-> what]

\* `expr?` inside the try_stream body: on Err the error is yielded and the
\* stream ends, on Ok the body goes on.
QuestionIgnoresErr(res, okpc) == okpc

Question(res, okpc) == IF res = "Ok" THEN okpc ELSE "end"

\* self.plan.with.contains_key("connector"), line 30
ContainsConnectorAlways(w) == TRUE

ContainsConnector(w) == "connector" \in w

Executor(k, w, pc, id) == [kind |-> k, with |-> w, pc |-> pc, id |-> id]

DdlIdle ==
    /\ ddl = Executor("none", {}, "end", -1)
    /\ storage_tables = {}
    /\ sources = {}
    /\ mviews = 0
    /\ yielded = <<>>
    /\ ddl_log = <<>>
    /\ ddl_n = 0

InitDdl == DdlIdle

\* A CreateTableExecutor is built from a plan and its stream is polled.
StartCreateTable(w) ==
    /\ ddl.pc = "end"
    /\ ddl_n < MaxDdl
    /\ ddl' = Executor("table", w, "create_table", -1)
    /\ yielded' = <<>>
    /\ ddl_log' = <<>>
    /\ ddl_n' = ddl_n + 1
    /\ UNCHANGED <<storage_tables, sources, mviews, catalogVars, builderVars, runVars>>

\* let id = self.storage.create_table(..).await?; the storage either creates
\* the table and returns its fresh id, or returns an error.
CreateTable(res) ==
    /\ ddl.kind = "table"
    /\ ddl.pc = "create_table"
    /\ LET id == Cardinality(storage_tables)
           next == IF ContainsConnector(ddl.with) THEN "create_source" ELSE "yield"
       IN  /\ storage_tables' = IF res = "Ok" THEN storage_tables \cup {id}
                                              ELSE storage_tables
           /\ ddl' = [ddl EXCEPT !.pc = Question(res, next),
                                 !.id = IF res = "Ok" THEN id ELSE -1]
           /\ ddl_log' = Append(ddl_log, <<"create_table", res, id>>)
    /\ yielded' = IF res = "Ok" THEN yielded
                                ELSE Append(yielded, ErrItem("create_table"))
    /\ UNCHANGED <<sources, mviews, ddl_n, catalogVars, builderVars, runVars>>

\* self.stream.create_source(id, &self.plan.with).await?
CreateSource(res) ==
    /\ ddl.kind = "table"
    /\ ddl.pc = "create_source"
    /\ sources' = IF res = "Ok" THEN sources \cup {ddl.id} ELSE sources
    /\ ddl' = [ddl EXCEPT !.pc = Question(res, "yield")]
    /\ ddl_log' = Append(ddl_log, <<"create_source", res, ddl.id>>)
    /\ yielded' = IF res = "Ok" THEN yielded
                                ELSE Append(yielded, ErrItem("create_source"))
    /\ UNCHANGED <<storage_tables, mviews, ddl_n, catalogVars, builderVars, runVars>>

StartCreateMView ==
    /\ ddl.pc = "end"
    /\ ddl_n < MaxDdl
    /\ ddl' = Executor("mview", {}, "create_mview", -1)
    /\ yielded' = <<>>
    /\ ddl_log' = <<>>
    /\ ddl_n' = ddl_n + 1
    /\ UNCHANGED <<storage_tables, sources, mviews, catalogVars, builderVars, runVars>>

\* self.stream.create_mview(self.args, self.query)?
CreateMView(res) ==
    /\ ddl.kind = "mview"
    /\ ddl.pc = "create_mview"
    /\ mviews' = IF res = "Ok" THEN mviews + 1 ELSE mviews
    /\ ddl' = [ddl EXCEPT !.pc = Question(res, "yield")]
    /\ ddl_log' = Append(ddl_log, <<"create_mview", res, -1>>)
    /\ yielded' = IF res = "Ok" THEN yielded
                                ELSE Append(yielded, ErrItem("create_mview"))
    /\ UNCHANGED <<storage_tables, sources, ddl_n, catalogVars, builderVars, runVars>>

\* yield DataChunk::single(1), the last statement of both bodies
YieldChunk ==
    /\ ddl.pc = "yield"
    /\ yielded' = Append(yielded, AckChunk)
    /\ ddl' = [ddl EXCEPT !.pc = "end"]
    /\ UNCHANGED <<storage_tables, sources, mviews, ddl_log, ddl_n, catalogVars, builderVars, runVars>>

NextDdl ==
    \/ \E w \in SUBSET WithKeys : StartCreateTable(w)
    \/ \E res \in {"Ok", "Err"} : CreateTable(res)
    \/ \E res \in {"Ok", "Err"} : CreateSource(res)
    \/ StartCreateMView
    \/ \E res \in {"Ok", "Err"} : CreateMView(res)
    \/ YieldChunk

\* ========================================================== Database::run
MaxStmts == 3     \* statements in one sql string

\* How a statement fares: whether binder.bind and executor.execute succeed,
\* and the chunk execute returns.
Stmt(b, e, c) == [bind |-> b, exec |-> e, chunk |-> c]

StmtInputs ==
    {Stmt("Err", "Ok", "c1"), Stmt("Ok", "Err", "c1"),
     Stmt("Ok", "Ok", "c1"), Stmt("Ok", "Ok", "c2")}

RunOk(v)  == [tag |-> "Ok", val |-> v, err |-> ""]
RunErr(e) == [tag |-> "Err", val |-> <<>>, err |-> e]
NoRet     == [tag |-> "none", val |-> <<>>, err |-> ""]

\* The #[from] conversions of Error that `?` applies in each phase.
FromAlwaysExecute(phase) == "Execute"

From(phase) ==
    CASE phase = "parse"   -> "Parse"
      [] phase = "bind"    -> "Bind"
      [] phase = "execute" -> "Execute"

\* outputs.push(output)
Push(outs, o) == Append(outs, o)

RunIdle ==
    /\ parse_ok = TRUE
    /\ stmts = <<>>
    /\ run_pc = "idle"
    /\ run_i = 1
    /\ outputs = <<>>
    /\ run_ret = NoRet
    /\ run_log = <<>>

InitRun ==
    /\ parse_ok \in BOOLEAN
    /\ stmts \in SeqsUpTo(StmtInputs, MaxStmts)
    /\ ~parse_ok => stmts = <<>>
    /\ run_pc = "parse"
    /\ run_i = 1
    /\ outputs = <<>>
    /\ run_ret = NoRet
    /\ run_log = <<>>

\* Where the for loop goes with statement i next: its body, or Ok(outputs).
LoopAt(i, outs) ==
    IF i > Len(stmts) THEN [pc |-> "returned", ret |-> RunOk(outs)]
                      ELSE [pc |-> "bind", ret |-> NoRet]

\* let stmts = parse(sql)?; and the loop's entry
Parse ==
    /\ run_pc = "parse"
    /\ IF parse_ok
        THEN /\ run_pc' = LoopAt(1, outputs).pc
             /\ run_ret' = LoopAt(1, outputs).ret
        ELSE /\ run_pc' = "returned"
             /\ run_ret' = RunErr(From("parse"))
    /\ UNCHANGED <<parse_ok, stmts, run_i, outputs, run_log, catalogVars, builderVars, ddlVars>>

\* let bound_stmt = binder.bind(&stmt)?;
Bind ==
    /\ run_pc = "bind"
    /\ run_log' = Append(run_log, <<"bind", run_i>>)
    /\ IF stmts[run_i].bind = "Ok"
        THEN /\ run_pc' = "execute"
             /\ run_ret' = run_ret
        ELSE /\ run_pc' = "returned"
             /\ run_ret' = RunErr(From("bind"))
    /\ UNCHANGED <<parse_ok, stmts, run_i, outputs, catalogVars, builderVars, ddlVars>>

\* let output = executor.execute()?; outputs.push(output); next iteration
Execute ==
    /\ run_pc = "execute"
    /\ run_log' = Append(run_log, <<"execute", run_i>>)
    /\ IF stmts[run_i].exec = "Ok"
        THEN LET outs == Push(outputs, stmts[run_i].chunk)
             IN  /\ outputs' = outs
                 /\ run_i' = run_i + 1
                 /\ run_pc' = LoopAt(run_i + 1, outs).pc
                 /\ run_ret' = LoopAt(run_i + 1, outs).ret
        ELSE /\ run_pc' = "returned"
             /\ run_ret' = RunErr(From("execute"))
             /\ UNCHANGED <<run_i, outputs>>
    /\ UNCHANGED <<parse_ok, stmts, catalogVars, builderVars, ddlVars>>

NextRun ==
    \/ Parse
    \/ Bind
    \/ Execute

\* ========================================================= specifications
InitCatalogSpec == InitCatalog /\ BuilderIdle /\ DdlIdle /\ RunIdle
InitResolveSpec == CatalogIdle /\ InitResolve /\ DdlIdle /\ RunIdle
InitBuildSpec   == CatalogIdle /\ InitBuild /\ DdlIdle /\ RunIdle
InitDdlSpec     == CatalogIdle /\ BuilderIdle /\ InitDdl /\ RunIdle
InitRunSpec     == CatalogIdle /\ BuilderIdle /\ DdlIdle /\ InitRun

SpecCatalog == InitCatalogSpec /\ [][NextCatalog]_vars

SpecResolve == InitResolveSpec /\ [][NextResolve]_vars

SpecBuild == InitBuildSpec /\ [][NextBuild]_vars

SpecDdl == InitDdlSpec /\ [][NextDdl]_vars

SpecRun == InitRunSpec /\ [][NextRun]_vars

\* ================================================= properties: the catalog
DeclIds == {decl[i].id : i \in 1..Len(decl)}

DeclWithId(i) == CHOOSE c \in Range(decl) : c.id = i

DistinctUserIds ==
    /\ \A i, j \in 1..Len(decl) : decl[i].id = decl[j].id => i = j
    /\ ROWID \notin DeclIds

DuplicateCall == last.op = "add_column" /\ last.col.name \in DOMAIN pre_idxs

\* C1: an add_column call whose column name is already present returns
\* Duplicated("column", name) and leaves the catalog as it was: the name maps
\* to the same id, and neither map gains, loses or changes an entry.
C1_DuplicateRejected ==
    DuplicateCall =>
        /\ last.ret = RetDuplicated(last.col.name)
        /\ get_column_id_by_name(column_idxs, last.col.name)
             = get_column_id_by_name(pre_idxs, last.col.name)
        /\ column_idxs = pre_idxs
        /\ columns = pre_columns

\* A duplicate name arrives with an id no column has yet.
C1_Witness ==
    /\ DuplicateCall
    /\ last.col.id \notin DOMAIN pre_columns
    /\ last.col.id # pre_idxs[last.col.name]

\* C2 as stated: a table new returned for n declared columns of distinct names
\* has all_columns() = {0 -> c0, .., n-1 -> c(n-1)} without the rowid column,
\* and all_columns_with_rowid() = that plus the rowid entry, n + 1 entries.
C2_AsStated ==
    last.op = "new" =>
        LET n == Len(decl)
        IN  /\ all_columns(columns) = [i \in 0..(n - 1) |-> decl[i + 1]]
            /\ ROWID \notin DOMAIN all_columns(columns)
            /\ all_columns_with_rowid(columns)
                 = [i \in (0..(n - 1)) \cup {ROWID} |->
                        IF i = ROWID THEN RowidColumn ELSE decl[i + 1]]
            /\ Cardinality(DOMAIN all_columns_with_rowid(columns)) = n + 1

\* C2 amended: new takes each column's id from the ColumnCatalog it is given.
\* When the n declared columns have distinct names and pairwise distinct ids,
\* none of them u32::MAX, all_columns() has exactly n entries, each declared
\* column under its own id (so id i -> the i-th column when the caller numbered
\* them 0..n-1 in declaration order), never the rowid column, and
\* all_columns_with_rowid() has those entries plus the one rowid entry.
C2_ColumnsUnderOwnIds ==
    (last.op = "new" /\ DistinctUserIds) =>
        LET n == Len(decl)
        IN  /\ all_columns(columns) = [i \in DeclIds |-> DeclWithId(i)]
            /\ Cardinality(DOMAIN all_columns(columns)) = n
            /\ ROWID \notin DOMAIN all_columns(columns)
            /\ all_columns_with_rowid(columns)
                 = [i \in DeclIds \cup {ROWID} |->
                        IF i = ROWID THEN RowidColumn ELSE DeclWithId(i)]
            /\ Cardinality(DOMAIN all_columns_with_rowid(columns)) = n + 1
            /\ (\A k \in 1..n : decl[k].id = k - 1) =>
                    all_columns(columns) = [i \in 0..(n - 1) |-> decl[i + 1]]

\* Two columns declared with ids 0 and 1 in that order.
C2_Witness ==
    /\ last.op = "new"
    /\ Len(decl) = 2
    /\ decl[1].id = 0
    /\ decl[2].id = 1

\* C9: after a successful add_column every column present before is still
\* returned unchanged by get_column_by_id and get_column_by_name under its
\* previous id, the rowid column is still present, and there is exactly one
\* column more.
C9_AppendOnly ==
    (last.op = "add_column" /\ last.ret.tag = "Ok") =>
        /\ \A n \in DOMAIN pre_idxs :
            /\ get_column_id_by_name(column_idxs, n) = get_column_id_by_name(pre_idxs, n)
            /\ get_column_by_name(column_idxs, columns, n)
                 = get_column_by_name(pre_idxs, pre_columns, n)
        /\ \A i \in DOMAIN pre_columns :
            get_column_by_id(columns, i) = get_column_by_id(pre_columns, i)
        /\ get_column_by_name(column_idxs, columns, "_rowid_") = Some(RowidColumn)
        /\ get_column_by_id(columns, ROWID) = Some(RowidColumn)
        /\ Cardinality(DOMAIN columns) = Cardinality(DOMAIN pre_columns) + 1

\* =============================================== properties: the resolver
Occurs(schema, id) == \E p \in 1..Len(schema) : schema[p] = id

\* The least position, counted from 0, at which id occurs in schema.
FirstPos(schema, id) ==
    (CHOOSE p \in 1..Len(schema) :
        /\ schema[p] = id
        /\ \A q \in 1..(p - 1) : schema[q] # id) - 1

IsTree(t) == t.kind \notin {"none", "panic"}

\* The classes the resolver visits below class id, each with the subtree it
\* was turned into.
RECURSIVE Pairs(_, _)
Pairs(id, t) ==
    {<<id, t>>} \cup
        IF t.kind = "ColumnIndex" THEN {}
        ELSE UNION {Pairs(node(id).children[j], t.children[j]) :
                        j \in 1..Len(t.children)}

\* Those below the root of the resolved expression.
Resolved ==
    UNION {Pairs(node(rexpr).children[j], rresult.children[j]) :
                j \in 1..Len(rresult.children)}

\* The classes the resolver reaches below the root: the descendants of expr
\* that lie under no class occurring in the schema.
RECURSIVE ReachedFrom(_, _)
ReachedFrom(schema, id) ==
    {id} \cup
        IF Occurs(schema, id) THEN {}
        ELSE UNION {ReachedFrom(schema, node(id).children[j]) :
                        j \in 1..Len(node(id).children)}

Reached ==
    UNION {ReachedFrom(node(rplan).schema, node(rexpr).children[j]) :
                j \in 1..Len(node(rexpr).children)}

UnresolvedReached ==
    \E x \in Reached : node(x).kind = "Column" /\ ~Occurs(node(rplan).schema, x)

\* C3 as stated: when the context schema holds class X at position k, a
\* reference to X resolves to index k; a reference absent from the schema
\* makes resolution fail.
C3_AsStated ==
    rresult # NoTree =>
        /\ UnresolvedReached => rresult = Panic
        /\ IsTree(rresult) =>
            \A pr \in Resolved :
                node(pr[1]).kind = "Column" =>
                    \A k \in 1..Len(node(rplan).schema) :
                        node(rplan).schema[k] = pr[1] => pr[2] = ColumnIndex(k - 1)

\* C3 amended: a column reference the resolver reaches whose class X occurs in
\* the context schema resolves to the index of the FIRST position holding X
\* (k itself when X occurs once), always inside the schema; resolution fails
\* exactly when it reaches a column reference absent from the schema, and then
\* yields no expression at all.
C3_FirstPosition ==
    rresult # NoTree =>
        /\ UnresolvedReached <=> rresult = Panic
        /\ IsTree(rresult) =>
            \A pr \in Resolved :
                node(pr[1]).kind = "Column" =>
                    /\ Occurs(node(rplan).schema, pr[1])
                    /\ pr[2] = ColumnIndex(FirstPos(node(rplan).schema, pr[1]))
                    /\ pr[2].idx \in 0..(Len(node(rplan).schema) - 1)
                    /\ node(rplan).schema[pr[2].idx + 1] = pr[1]

\* A referenced column sits at position 1 (from 0) of the schema and nowhere
\* else, and the list refers to it.
C3_Witness ==
    /\ IsTree(rresult)
    /\ rexpr = ExprListId
    /\ Len(node(rplan).schema) = 2
    /\ node(rplan).schema[1] # node(rplan).schema[2]
    /\ node(node(rplan).schema[2]).kind = "Column"
    /\ \E pr \in Resolved : pr[1] = node(rplan).schema[2] /\ pr[2] = ColumnIndex(1)

\* C8 as stated: a node that is not a column reference is never replaced by a
\* resolved column index, but rebuilt as a node of its own kind.
C8_AsStated ==
    IsTree(rresult) =>
        \A pr \in Resolved :
            node(pr[1]).kind # "Column" =>
                /\ pr[2].kind # "ColumnIndex"
                /\ pr[2].kind = node(pr[1]).kind

\* C8 amended: the resolver replaces ANY reached node whose class id occurs in
\* the context schema, column reference or not, by the index of the first
\* position holding it; a node that is not a column reference and whose class
\* id does not occur in the schema is rebuilt as a node of its own kind with
\* as many children, each resolved the same way; the root of the expression is
\* always kept.
C8_SchemaClassesReplaced ==
    IsTree(rresult) =>
        /\ rresult.kind = node(rexpr).kind
        /\ rresult.sym = rexpr
        /\ Len(rresult.children) = Len(node(rexpr).children)
        /\ \A pr \in Resolved :
            node(pr[1]).kind # "Column" =>
                IF Occurs(node(rplan).schema, pr[1])
                    THEN pr[2] = ColumnIndex(FirstPos(node(rplan).schema, pr[1]))
                    ELSE /\ pr[2].kind = node(pr[1]).kind
                         /\ pr[2].sym = pr[1]
                         /\ Len(pr[2].children) = Len(node(pr[1]).children)

\* (a + b) + 1 is resolved against a schema holding a + b: the outer sum is
\* rebuilt, the inner one becomes an index, the constant stays.
C8_Witness ==
    /\ IsTree(rresult)
    /\ rexpr = ExprListId
    /\ Occurs(node(rplan).schema, AddAB)
    /\ <<AddAB, ColumnIndex(FirstPos(node(rplan).schema, AddAB))>> \in Resolved
    /\ \E pr \in Resolved : pr[1] = AddAB1 /\ pr[2].kind = "Add"
    /\ \E pr \in Resolved : pr[1] = Const1 /\ pr[2].kind = "Constant"

\* ================================================= properties: the builder
\* The plan nodes of the plan rooted at id.
RECURSIVE PlanNodes(_)
PlanNodes(id) ==
    {id} \cup
        IF node(id).kind \in {"Proj", "Filter"}
            THEN PlanNodes(node(id).children[2])
            ELSE {}

EventsAt(op, id) == {i \in 1..Len(trace) : trace[i] = Event(op, id)}

Spawned == {trace[i][2] : i \in {j \in 1..Len(trace) : trace[j][1] = "spawn_stream"}}

\* A node build cannot compile: a kind with no streaming operator, or a
\* projection whose list refers to a column its child does not output.
Defective(id) ==
    \/ ~IsPlan(id)
    \/ /\ node(id).kind = "Proj"
       /\ resolve_column_index(node(id).children[1], node(id).children[2]) = Panic

PlanDefect == \E id \in PlanNodes(root) : Defective(id)

\* C4: build either succeeds with every Scan/Proj operator of the plan
\* scheduled (once each), or fails, which it does exactly when some projection
\* has an unresolved column or some node has an unsupported kind, and then no
\* spawn_stream call has been made for any node of the plan.
C4_AllOrNothing ==
    /\ bstate = "panicked" => Spawned = {}
    /\ bstate = "done" =>
        /\ Spawned = PlanNodes(root)
        /\ \A id \in PlanNodes(root) :
            IsPlan(id) /\ Cardinality(EventsAt("spawn_stream", id)) = 1
    /\ bstate \in {"done", "panicked"} => (bstate = "panicked" <=> PlanDefect)
    /\ Spawned # {} => ~PlanDefect

\* The root projection fails to resolve over a child plan that would build.
C4_Witness ==
    /\ bstate = "panicked"
    /\ Len(stack) = 1
    /\ node(root).kind = "Proj"
    /\ \A id \in PlanNodes(node(root).children[2]) : ~Defective(id)
    /\ trace[Len(trace)] = Event("panic_unresolved", root)

ProjNodes == {id \in PlanNodes(root) : node(id).kind = "Proj"}

\* C7 as stated: for a projection node the child is built, its operator
\* scheduled included, before the list is resolved.
C7_AsStated ==
    \A p \in ProjNodes :
        \A r \in EventsAt("resolve", p) :
            \E i \in EventsAt("spawn_stream", node(p).children[2]) : i < r

\* C7 amended: for a projection node build_id FIRST resolves expr_list against
\* the child's schema (the analysis data of the child's class), only afterwards
\* builds the child, its operator's scheduling included, and only then
\* schedules the projection operator over the child's stream.
C7_ResolveBeforeChild ==
    \A p \in ProjNodes :
        LET child == node(p).children[2]
        IN  /\ \A b \in EventsAt("build_id", child) :
                \E r \in EventsAt("resolve", p) : r < b
            /\ \A s \in EventsAt("spawn_stream", child) :
                \E r \in EventsAt("resolve", p) : r < s
            /\ \A s \in EventsAt("spawn_stream", p) :
                /\ \E c \in EventsAt("spawn_stream", child) : c < s
                /\ \E r \in EventsAt("resolve", p) : r < s

\* A projection over a projection over a scan has been built.
C7_Witness ==
    /\ bstate = "done"
    /\ Cardinality(ProjNodes) >= 2
    /\ Cardinality(Spawned) >= 3

\* ========================================== properties: the DDL executors
Count(seq, x) == Cardinality({i \in 1..Len(seq) : seq[i] = x})

Called(what) == {i \in 1..Len(ddl_log) : ddl_log[i][1] = what}

Failed == \E i \in 1..Len(ddl_log) : ddl_log[i][2] = "Err"

\* C5: the single-row chunk is yielded at most once, and only after
\* create_table and (when invoked) create_source, or create_mview, returned
\* success; a finished executor yielded exactly one item; if a step failed the
\* executor yielded that step's error and no chunk.
C5_AckAfterRegistration ==
    /\ Count(yielded, AckChunk) <= 1
    /\ Count(yielded, AckChunk) = 1 =>
        /\ ~Failed
        /\ yielded = <<AckChunk>>
        /\ ddl.kind = "table" =>
            /\ ddl_log[1] = <<"create_table", "Ok", ddl.id>>
            /\ ddl.id \in storage_tables
            /\ \A i \in Called("create_source") :
                ddl_log[i] = <<"create_source", "Ok", ddl.id>> /\ ddl.id \in sources
        /\ ddl.kind = "mview" => ddl_log = <<<<"create_mview", "Ok", -1>>>>
    /\ Failed =>
        /\ yielded = <<ErrItem(ddl_log[Len(ddl_log)][1])>>
        /\ ddl.pc = "end"
    /\ (ddl.kind # "none" /\ ddl.pc = "end") => Len(yielded) = 1

\* A table with a connector was created and acknowledged.
C5_Witness ==
    /\ ddl.kind = "table"
    /\ ddl.pc = "end"
    /\ "connector" \in ddl.with
    /\ yielded = <<AckChunk>>

\* C10 as stated: create_table is performed first and create_source is invoked
\* if and only if WITH holds "connector"; a failing create_source leaves the
\* created table in storage.
C10_AsStated ==
    (ddl.kind = "table" /\ ddl.pc \in {"yield", "end"}) =>
        /\ ddl_log[1][1] = "create_table"
        /\ Called("create_source") # {} <=> "connector" \in ddl.with
        /\ <<"create_source", "Err", ddl.id>> \in Range(ddl_log) =>
                ddl.id \in storage_tables

\* C10 amended: create_table is always performed first; create_source is
\* invoked, with the id create_table returned, if and only if create_table
\* succeeded and WITH holds "connector" (when create_table fails nothing else
\* is called); when create_source then fails the executor yields the error with
\* no compensating action, so the created table remains in storage, without a
\* source.
C10_SourceIffConnector ==
    /\ (ddl.kind = "table" /\ ddl_log # <<>>) => ddl_log[1][1] = "create_table"
    /\ \A i \in Called("create_source") :
        /\ i = 2
        /\ ddl_log[1] = <<"create_table", "Ok", ddl_log[i][3]>>
        /\ "connector" \in ddl.with
    /\ (ddl.kind = "table" /\ ddl.pc \in {"yield", "end"}) =>
        (Called("create_source") # {}
            <=> (ddl_log[1][2] = "Ok" /\ "connector" \in ddl.with))
    /\ <<"create_source", "Err", ddl.id>> \in Range(ddl_log) =>
        /\ ddl.id \in storage_tables
        /\ ddl.id \notin sources
        /\ yielded = <<ErrItem("create_source")>>
        /\ ddl.pc = "end"

\* create_source failed for a table that create_table had created.
C10_Witness ==
    /\ ddl.kind = "table"
    /\ ddl_log = <<<<"create_table", "Ok", ddl.id>>, <<"create_source", "Err", ddl.id>>>>
    /\ ddl.id \in storage_tables

\* ========================================== properties: Database::run
AllSucceed ==
    parse_ok /\ \A i \in 1..Len(stmts) : stmts[i].bind = "Ok" /\ stmts[i].exec = "Ok"

StmtFails(i) == stmts[i].bind = "Err" \/ stmts[i].exec = "Err"

\* The first statement that fails to bind or execute.
FirstFailing ==
    CHOOSE i \in 1..Len(stmts) : StmtFails(i) /\ \A j \in 1..(i - 1) : ~StmtFails(j)

\* C6: run returns Ok with one output per statement in statement order exactly
\* when parsing and every bind and execute succeeded; otherwise it returns
\* Error::Parse, Error::Bind or Error::Execute, the phase of the first failing
\* step, and no statement after the failing one is bound or executed.
C6_TypedFirstFailure ==
    run_pc = "returned" =>
        /\ run_ret.tag = "Ok" <=> AllSucceed
        /\ run_ret.tag = "Ok" =>
            /\ run_ret.val = [i \in 1..Len(stmts) |-> stmts[i].chunk]
            /\ run_log = [k \in 1..(2 * Len(stmts)) |->
                            IF k % 2 = 1 THEN <<"bind", (k + 1) \div 2>>
                                         ELSE <<"execute", k \div 2>>]
        /\ ~parse_ok => run_ret = RunErr("Parse") /\ run_log = <<>>
        /\ (parse_ok /\ ~AllSucceed) =>
            LET f == FirstFailing
            IN  /\ run_ret = RunErr(IF stmts[f].bind = "Err" THEN "Bind" ELSE "Execute")
                /\ \A k \in 1..Len(run_log) : run_log[k][2] <= f
                /\ stmts[f].bind = "Err" => <<"execute", f>> \notin Range(run_log)
                /\ \A j \in 1..(f - 1) :
                    <<"bind", j>> \in Range(run_log) /\ <<"execute", j>> \in Range(run_log)

\* The second statement fails to bind after the first one ran, a third follows.
C6_Witness ==
    /\ run_pc = "returned"
    /\ Len(stmts) = 3
    /\ stmts[1].bind = "Ok" /\ stmts[1].exec = "Ok"
    /\ stmts[2].bind = "Err"
    /\ run_ret = RunErr("Bind")

====
